---- MODULE Spec2Model ----
(***************************************************************************)
(* Model of the replicate client library: the Prediction resource          *)
(* (wait, reload, cancel, output_iterator, Progress.parse) and the         *)
(* Predictions / Models namespaces (list, create).                         *)
(*                                                                         *)
(* Python values are represented as follows.                               *)
(*   None (Optional[str])   the string "None"                              *)
(*   Optional list          a record [is_none, items]                      *)
(*   str that is scanned    a sequence of code points (ord of each char)   *)
(*   an exception           a record [type, msg]                           *)
(*   percentage / 100.0     a record [num, den] with den = 100             *)
(*                                                                         *)
(* The program is single-threaded.  The caller has control when it is not  *)
(* inside wait() and no generator of output_iterator is executing; a       *)
(* generator executes from a next() until its next yield, its end or its   *)
(* exception.  The remote service moves at any time.                       *)
(***************************************************************************)
EXTENDS Integers, Sequences, FiniteSets, TLC

\* ------------------------------------------------------------------------
\* Bounds of the model
\* ------------------------------------------------------------------------
MaxOut == 2
MaxPolls == 2

\* ------------------------------------------------------------------------
\* Values
\* ------------------------------------------------------------------------
None == "None"
Elems == {"A", "B"}
Ids == {"p1", "p2"}
ErrMsgs == {"boom"}

\* the generators the caller makes with output_iterator()
Gens == {"g1", "g2"}

NoneOutput == [is_none |-> TRUE, items |-> <<>>]
ListOutput(s) == [is_none |-> FALSE, items |-> s]

NoException == [type |-> "None", msg |-> None]
ModelError(msg) == [type |-> "ModelError", msg |-> msg]
RequestError == [type |-> "RequestError", msg |-> None]

NoRequest == [method |-> "None", target |-> ""]

VARIABLES
    srv,              \* the remote record of the prediction
    self,             \* the Prediction object's fields (last snapshot)
    pc,               \* position of the caller: idle, inside wait(), or at
                      \* the return of reload(), wait() or cancel()
    gen_pc,           \* position of each generator
    previous_output,  \* output_iterator local, per generator
    output,           \* output_iterator local, per generator
    new_output,       \* output_iterator local: slice still to be yielded
    yielded,          \* elements each generator has yielded, in order
    yielded_pos,      \* position in the output list of each yielded element
    start_output,     \* self.output or [] when the generator's body began
    gen_raised,       \* exception each generator has raised
    start_status,     \* self.status when the running call began
    raised,           \* exception raised by the running call
    sleeps,           \* time.sleep calls made by the running wait()
    reloads,          \* reload calls made by the running wait()
    last_fetched,     \* last record received from the server
    last_request,     \* last request handed to the transport
    cancel_requests,  \* requests the running cancel() handed to the transport
    logs,             \* Prediction.logs handed to Prediction.progress
    log_lines,        \* the lines the log text was written from
    parsed,           \* what Prediction.progress returned
    parse_raised,     \* exception Prediction.progress raised
    parse_pc,         \* "ready" before the call, "done" after it
    model_obj,        \* the fields of a Model object
    ns_call,          \* last namespace call: namespace, operation, arguments
    ns_request,       \* the request the last namespace call handed to the
                      \* transport, NoNsRequest when it handed none
    ns_requests,      \* requests the namespaces handed to the transport
    ns_before,        \* ns_requests when the last namespace call began
    ns_raised         \* exception raised by the last namespace call

iterVars == <<gen_pc, previous_output, output, new_output, yielded,
              yielded_pos, start_output, gen_raised>>
waitVars == <<sleeps, reloads>>
transportVars == <<last_fetched, last_request>>

callVars == <<start_status, raised, waitVars, cancel_requests>>

predVars == <<srv, self, pc, iterVars, callVars, transportVars>>

parseVars == <<logs, log_lines, parsed, parse_raised, parse_pc>>

nsVars == <<model_obj, ns_call, ns_request, ns_requests, ns_before, ns_raised>>

vars == <<predVars, parseVars, nsVars>>

\* ------------------------------------------------------------------------
\* Helpers
\* ------------------------------------------------------------------------
Terminal == {"succeeded", "failed", "canceled"}

\* variant: a loop that only goes on while the status is "starting"
NotFinishedStarting(status) == status = "starting"

\* `status not in ["succeeded", "failed", "canceled"]`
NotFinished(status) == status \notin Terminal

\* `self.output or []`
OrEmpty(o) == IF o.is_none \/ o.items = <<>> THEN <<>> ELSE o.items

\* variant: the whole list instead of the slice beyond previous_output
NewOutputWhole(out, prev) == out

\* `output[len(previous_output):]`
NewOutput(out, prev) ==
    IF Len(prev) >= Len(out) THEN <<>> ELSE SubSeq(out, Len(prev) + 1, Len(out))

\* The record the server returns for the prediction `id`.
Record(id, s) == [id |-> id, status |-> s.status, output |-> s.output,
                  error |-> s.error]

\* Predictions.get: GET /v1/predictions/{id}
GetRequest(id) == [method |-> "GET", target |-> "/v1/predictions/" \o id]

\* Predictions.cancel: POST /v1/predictions/{id}/cancel
CancelRequest(id) ==
    [method |-> "POST", target |-> "/v1/predictions/" \o id \o "/cancel"]

\* What the remote service does with a cancel request.
ServerCanceled(s) ==
    IF s.status \in Terminal THEN s ELSE [s EXCEPT !.status = "canceled"]

\* a generator that is not executing: not made, not started, suspended at
\* a yield, or finished
Suspended(g) ==
    gen_pc[g] \in {"none", "created", "at_yield", "at_tail_yield", "iter_end"}

\* the generator ends, by return or by exception: its frame and the locals
\* in it are gone
FrameDropped(g) ==
    /\ gen_pc' = [gen_pc EXCEPT ![g] = "iter_end"]
    /\ previous_output' = [previous_output EXCEPT ![g] = <<>>]
    /\ output' = [output EXCEPT ![g] = <<>>]
    /\ new_output' = [new_output EXCEPT ![g] = <<>>]

\* the caller is between two calls
CallerHasControl == pc = "idle" /\ \A g \in Gens : Suspended(g)

\* ------------------------------------------------------------------------
\* Initial state: a Prediction just built from the server's record
\* ------------------------------------------------------------------------
InitPred ==
    /\ srv = [status |-> "starting", output |-> NoneOutput, error |-> None]
    /\ \E id \in Ids : self = Record(id, srv)
    /\ pc = "idle"
    /\ gen_pc = [g \in Gens |-> "none"]
    /\ previous_output = [g \in Gens |-> <<>>]
    /\ output = [g \in Gens |-> <<>>]
    /\ new_output = [g \in Gens |-> <<>>]
    /\ yielded = [g \in Gens |-> <<>>]
    /\ yielded_pos = [g \in Gens |-> <<>>]
    /\ start_output = [g \in Gens |-> <<>>]
    /\ gen_raised = [g \in Gens |-> NoException]
    /\ start_status = None
    /\ raised = NoException
    /\ sleeps = 0
    /\ reloads = 0
    /\ last_fetched = self
    /\ last_request = NoRequest
    /\ cancel_requests = 0

\* ------------------------------------------------------------------------
\* The remote service (append-only output, monotonic status)
\* ------------------------------------------------------------------------
ServerStart ==
    /\ srv.status = "starting"
    /\ srv' = [srv EXCEPT !.status = "processing"]
    /\ UNCHANGED <<self, pc, iterVars, callVars, transportVars>>
    /\ UNCHANGED <<parseVars, nsVars>>

ServerAppend ==
    /\ srv.status = "processing"
    /\ Len(srv.output.items) < MaxOut
    /\ \E e \in Elems :
          srv' = [srv EXCEPT !.output = ListOutput(Append(srv.output.items, e))]
    /\ UNCHANGED <<self, pc, iterVars, callVars, transportVars>>
    /\ UNCHANGED <<parseVars, nsVars>>

ServerFinish ==
    /\ srv.status \notin Terminal
    /\ \/ \E st \in {"succeeded", "canceled"} :
             srv' = [srv EXCEPT !.status = st]
       \/ \E msg \in ErrMsgs :
             srv' = [srv EXCEPT !.status = "failed", !.error = msg]
    /\ UNCHANGED <<self, pc, iterVars, callVars, transportVars>>
    /\ UNCHANGED <<parseVars, nsVars>>

\* ------------------------------------------------------------------------
\* Prediction.reload
\* ------------------------------------------------------------------------
\* The effect of reload() on the object: every field is overwritten.
Reloaded ==
    /\ self' = Record(self.id, srv)
    /\ last_fetched' = Record(self.id, srv)
    /\ last_request' = GetRequest(self.id)

\* The request of reload() fails: the transport raises, nothing is assigned.
ReloadFailed ==
    /\ last_request' = GetRequest(self.id)
    /\ UNCHANGED <<self, last_fetched>>

\* reload() called by the caller
reload ==
    /\ CallerHasControl
    /\ Reloaded
    /\ start_status' = self.status
    /\ raised' = NoException
    /\ pc' = "reload_done"
    /\ UNCHANGED <<srv, iterVars, waitVars, cancel_requests>>
    /\ UNCHANGED <<parseVars, nsVars>>

reload_fails ==
    /\ CallerHasControl
    /\ ReloadFailed
    /\ start_status' = self.status
    /\ raised' = RequestError
    /\ pc' = "reload_done"
    /\ UNCHANGED <<srv, iterVars, waitVars, cancel_requests>>
    /\ UNCHANGED <<parseVars, nsVars>>

\* ------------------------------------------------------------------------
\* Prediction.wait
\* ------------------------------------------------------------------------
\* variant: a loop that sleeps and reloads before it tests the status
WaitFirstStepSleep == "wait_sleep"

\* `while` tests the status before the first sleep
WaitFirstStep == "wait_check"

wait_call ==
    /\ CallerHasControl
    /\ pc' = WaitFirstStep
    /\ start_status' = self.status
    /\ sleeps' = 0
    /\ reloads' = 0
    /\ raised' = NoException
    /\ UNCHANGED <<srv, self, iterVars, transportVars, cancel_requests>>
    /\ UNCHANGED <<parseVars, nsVars>>

\* the loop condition
wait_check ==
    /\ pc = "wait_check"
    /\ pc' = IF NotFinished(self.status) THEN "wait_sleep" ELSE "wait_done"
    /\ UNCHANGED <<srv, self, iterVars, callVars, transportVars>>
    /\ UNCHANGED <<parseVars, nsVars>>

\* time.sleep(poll_interval); polls that cannot observe a terminal status
\* are limited to MaxPolls
wait_sleep ==
    /\ pc = "wait_sleep"
    /\ reloads < MaxPolls \/ srv.status \in Terminal
    /\ sleeps' = sleeps + 1
    /\ pc' = "wait_reload"
    /\ UNCHANGED <<srv, self, iterVars, start_status, raised, reloads,
                   transportVars, cancel_requests>>
    /\ UNCHANGED <<parseVars, nsVars>>

wait_reload ==
    /\ pc = "wait_reload"
    /\ Reloaded
    /\ reloads' = reloads + 1
    /\ pc' = "wait_check"
    /\ UNCHANGED <<srv, iterVars, start_status, raised, sleeps,
                   cancel_requests>>
    /\ UNCHANGED <<parseVars, nsVars>>

\* the fetch fails: the transport's error propagates out of wait()
wait_reload_fails ==
    /\ pc = "wait_reload"
    /\ ReloadFailed
    /\ reloads' = reloads + 1
    /\ raised' = RequestError
    /\ pc' = "wait_done"
    /\ UNCHANGED <<srv, iterVars, start_status, sleeps, cancel_requests>>
    /\ UNCHANGED <<parseVars, nsVars>>

\* ------------------------------------------------------------------------
\* Prediction.cancel
\* ------------------------------------------------------------------------
\* variant: a cancel() that sends nothing when the status held is terminal
cancel_prechecked ==
    /\ CallerHasControl
    /\ IF self.status \in Terminal
       THEN /\ cancel_requests' = 0
            /\ UNCHANGED <<transportVars, srv, self>>
       ELSE /\ cancel_requests' = 1
            /\ last_request' = CancelRequest(self.id)
            /\ srv' = ServerCanceled(srv)
            /\ last_fetched' = Record(self.id, srv')
            /\ self' = Record(self.id, srv')
    /\ start_status' = self.status
    /\ raised' = NoException
    /\ pc' = "cancel_done"
    /\ UNCHANGED <<iterVars, waitVars>>
    /\ UNCHANGED <<parseVars, nsVars>>

cancel ==
    /\ CallerHasControl
    /\ cancel_requests' = 1
    /\ last_request' = CancelRequest(self.id)
    /\ srv' = ServerCanceled(srv)
    /\ last_fetched' = Record(self.id, srv')
    /\ self' = Record(self.id, srv')
    /\ start_status' = self.status
    /\ raised' = NoException
    /\ pc' = "cancel_done"
    /\ UNCHANGED <<iterVars, waitVars>>
    /\ UNCHANGED <<parseVars, nsVars>>

\* the request of cancel() fails: the transport raises and nothing is
\* assigned; the service may or may not have acted on the request
cancel_fails ==
    /\ CallerHasControl
    /\ cancel_requests' = 1
    /\ last_request' = CancelRequest(self.id)
    /\ srv' \in {srv, ServerCanceled(srv)}
    /\ start_status' = self.status
    /\ raised' = RequestError
    /\ pc' = "cancel_done"
    /\ UNCHANGED <<self, last_fetched, iterVars, waitVars>>
    /\ UNCHANGED <<parseVars, nsVars>>

\* ------------------------------------------------------------------------
\* The call of reload(), wait() or cancel() has returned or raised: the
\* caller goes on
\* ------------------------------------------------------------------------
call_return ==
    /\ pc \in {"reload_done", "wait_done", "cancel_done"}
    /\ pc' = "idle"
    /\ start_status' = None
    /\ raised' = NoException
    /\ sleeps' = 0
    /\ reloads' = 0
    /\ cancel_requests' = 0
    /\ UNCHANGED <<srv, self, iterVars, transportVars>>
    /\ UNCHANGED <<parseVars, nsVars>>

\* ------------------------------------------------------------------------
\* Prediction.output_iterator
\* ------------------------------------------------------------------------
\* output_iterator() makes a generator; none of its body runs yet.  The
\* generators are named in the order they are made.
iter_call(g) ==
    /\ CallerHasControl
    /\ gen_pc[g] = "none"
    /\ g = "g2" => gen_pc["g1"] # "none"
    /\ gen_pc' = [gen_pc EXCEPT ![g] = "created"]
    /\ UNCHANGED <<srv, self, pc, previous_output, output, new_output,
                   yielded, yielded_pos, start_output, gen_raised,
                   callVars, transportVars>>
    /\ UNCHANGED <<parseVars, nsVars>>

\* next(g): the body starts (`previous_output = self.output or []`), or
\* goes on after the yield it is suspended at
iter_next(g) ==
    /\ CallerHasControl
    /\ gen_pc[g] \in {"created", "at_yield", "at_tail_yield"}
    /\ IF gen_pc[g] = "created"
       THEN /\ previous_output' =
                  [previous_output EXCEPT ![g] = OrEmpty(self.output)]
            /\ start_output' = [start_output EXCEPT ![g] = OrEmpty(self.output)]
            /\ gen_pc' = [gen_pc EXCEPT ![g] = "iter_loop"]
       ELSE /\ gen_pc' = [gen_pc EXCEPT ![g] =
                  IF gen_pc[g] = "at_yield" THEN "iter_yield" ELSE "iter_tail"]
            /\ UNCHANGED <<previous_output, start_output>>
    /\ UNCHANGED <<srv, self, pc, output, new_output, yielded, yielded_pos,
                   gen_raised, callVars, transportVars>>
    /\ UNCHANGED <<parseVars, nsVars>>

\* the loop condition and what follows it up to the first yield
iter_loop(g) ==
    /\ gen_pc[g] = "iter_loop"
    /\ IF NotFinished(self.status)
       THEN /\ output' = [output EXCEPT ![g] = OrEmpty(self.output)]
            /\ new_output' = [new_output EXCEPT ![g] =
                  NewOutput(OrEmpty(self.output), previous_output[g])]
            /\ gen_pc' = [gen_pc EXCEPT ![g] = "iter_yield"]
            /\ UNCHANGED <<gen_raised, previous_output>>
       ELSE IF self.status = "failed"
       THEN /\ gen_raised' = [gen_raised EXCEPT ![g] = ModelError(self.error)]
            /\ FrameDropped(g)
       ELSE /\ output' = [output EXCEPT ![g] = OrEmpty(self.output)]
            /\ new_output' = [new_output EXCEPT ![g] =
                  NewOutput(OrEmpty(self.output), previous_output[g])]
            /\ gen_pc' = [gen_pc EXCEPT ![g] = "iter_tail"]
            /\ UNCHANGED <<gen_raised, previous_output>>
    /\ UNCHANGED <<srv, self, pc, yielded, yielded_pos,
                   start_output, callVars, transportVars>>
    /\ UNCHANGED <<parseVars, nsVars>>

\* one element handed to the consumer
Yield(g) ==
    /\ yielded' = [yielded EXCEPT ![g] = Append(@, Head(new_output[g]))]
    /\ yielded_pos' = [yielded_pos EXCEPT ![g] =
          Append(@, Len(output[g]) - Len(new_output[g]) + 1)]
    /\ new_output' = [new_output EXCEPT ![g] = Tail(@)]

\* `yield from new_output`: the next element is yielded and the generator
\* is suspended; after the last one, `previous_output = output`
iter_yield(g) ==
    /\ gen_pc[g] = "iter_yield"
    /\ IF new_output[g] # <<>>
       THEN /\ Yield(g)
            /\ gen_pc' = [gen_pc EXCEPT ![g] = "at_yield"]
            /\ UNCHANGED previous_output
       ELSE /\ previous_output' = [previous_output EXCEPT ![g] = output[g]]
            /\ gen_pc' = [gen_pc EXCEPT ![g] = "iter_sleep"]
            /\ UNCHANGED <<new_output, yielded, yielded_pos>>
    /\ UNCHANGED <<srv, self, pc, output, start_output, gen_raised,
                   callVars, transportVars>>
    /\ UNCHANGED <<parseVars, nsVars>>

iter_sleep(g) ==
    /\ gen_pc[g] = "iter_sleep"
    /\ gen_pc' = [gen_pc EXCEPT ![g] = "iter_reload"]
    /\ UNCHANGED <<srv, self, pc, previous_output, output, new_output,
                   yielded, yielded_pos, start_output, gen_raised,
                   callVars, transportVars>>
    /\ UNCHANGED <<parseVars, nsVars>>

iter_reload(g) ==
    /\ gen_pc[g] = "iter_reload"
    /\ Reloaded
    /\ gen_pc' = [gen_pc EXCEPT ![g] = "iter_loop"]
    /\ UNCHANGED <<srv, pc, previous_output, output, new_output, yielded,
                   yielded_pos, start_output, gen_raised, callVars>>
    /\ UNCHANGED <<parseVars, nsVars>>

\* the fetch fails: the transport's error propagates out of the generator
iter_reload_fails(g) ==
    /\ gen_pc[g] = "iter_reload"
    /\ ReloadFailed
    /\ gen_raised' = [gen_raised EXCEPT ![g] = RequestError]
    /\ FrameDropped(g)
    /\ UNCHANGED <<srv, pc, yielded, yielded_pos, start_output, callVars>>
    /\ UNCHANGED <<parseVars, nsVars>>

\* the final `for output in new_output: yield output`
iter_tail(g) ==
    /\ gen_pc[g] = "iter_tail"
    /\ IF new_output[g] # <<>>
       THEN /\ Yield(g)
            /\ gen_pc' = [gen_pc EXCEPT ![g] = "at_tail_yield"]
            /\ UNCHANGED <<previous_output, output>>
       ELSE /\ FrameDropped(g)
            /\ UNCHANGED <<yielded, yielded_pos>>
    /\ UNCHANGED <<srv, self, pc, start_output, gen_raised, callVars, transportVars>>
    /\ UNCHANGED <<parseVars, nsVars>>

\* ------------------------------------------------------------------------
\* Prediction.Progress: the pattern
\*   ^\s*(?P<percentage>\d+)%\s*\|.+?\|\s*(?P<current>\d+)\/(?P<total>\d+)
\* A str is a sequence of code points.
\* ------------------------------------------------------------------------
\* "%"
Percent == 37

\* "|"
Pipe == 124

\* "/"
Slash == 47

\* "\n"
Newline == 10

\* the characters \s matches in a str pattern, which are the characters
\* str.strip() removes
WhitespaceChars ==
    (9..13) \cup (28..32) \cup {133, 160, 5760} \cup (8192..8202)
    \cup {8232, 8233, 8239, 8287, 12288}

\* the code points of the digit zero of every run of ten decimal digits
\* (Unicode category Nd): \d matches them and int() reads them
DigitZeros ==
    {48, 1632, 1776, 1984, 2406, 2534, 2662, 2790, 2918, 3046, 3174, 3302,
     3430, 3558, 3664, 3792, 3872, 4160, 4240, 6112, 6160, 6470, 6608, 6784,
     6800, 6992, 7088, 7232, 7248, 42528, 43216, 43264, 43472, 43504, 43600,
     44016, 65296, 66720, 68912, 69734, 69872, 69942, 70096, 70384, 70736,
     70864, 71248, 71360, 71472, 71904, 72016, 72784, 73040, 73120, 92768,
     92864, 93008, 120782, 120792, 120802, 120812, 120822, 123200, 123632,
     125264, 130032}

\* \d
IsDigit(ch) == \E z \in DigitZeros : z <= ch /\ ch <= z + 9

\* the value int() gives the digit
DigitValue(ch) == ch - (CHOOSE z \in DigitZeros : z <= ch /\ ch <= z + 9)

\* \s
IsSpace(ch) == ch \in WhitespaceChars

\* sys.get_int_max_str_digits(): the longest digit string int() converts
IntMaxStrDigits == 4300

\* int() raises ValueError for a longer string of digits, leading zeros
\* counted
IntRaises(ds) == Len(ds) > IntMaxStrDigits

\* the values of the digits of ds from its first digit that is not zero
Significant(ds) ==
    LET nz == {i \in 1..Len(ds) : DigitValue(ds[i]) # 0}
    IN  IF nz = {} THEN <<>>
        ELSE LET first == CHOOSE i \in nz : \A j \in nz : i <= j
             IN  [k \in 1..(Len(ds) - first + 1) |->
                     DigitValue(ds[first + k - 1])]

\* the number a string of digit values writes
RECURSIVE ValueOf(_)
ValueOf(v) ==
    IF v = <<>> THEN 0
    ELSE 10 * ValueOf(SubSeq(v, 1, Len(v) - 1)) + v[Len(v)]

\* int() of a string of digits: leading zeros do not count
ToInt(ds) == ValueOf(Significant(ds))

\* the decimal digits of 2^1024 - 2^970, the least integer the conversion
\* to float rounds beyond the largest float
FloatLimitDigits ==
    <<
       1, 7, 9, 7, 6, 9, 3, 1, 3, 4, 8, 6, 2, 3, 1, 5, 8, 0, 7, 9, 3, 7, 2, 8, 9, 7, 1, 4, 0, 5,
       3, 0, 3, 4, 1, 5, 0, 7, 9, 9, 3, 4, 1, 3, 2, 7, 1, 0, 0, 3, 7, 8, 2, 6, 9, 3, 6, 1, 7, 3,
       7, 7, 8, 9, 8, 0, 4, 4, 4, 9, 6, 8, 2, 9, 2, 7, 6, 4, 7, 5, 0, 9, 4, 6, 6, 4, 9, 0, 1, 7,
       9, 7, 7, 5, 8, 7, 2, 0, 7, 0, 9, 6, 3, 3, 0, 2, 8, 6, 4, 1, 6, 6, 9, 2, 8, 8, 7, 9, 1, 0,
       9, 4, 6, 5, 5, 5, 5, 4, 7, 8, 5, 1, 9, 4, 0, 4, 0, 2, 6, 3, 0, 6, 5, 7, 4, 8, 8, 6, 7, 1,
       5, 0, 5, 8, 2, 0, 6, 8, 1, 9, 0, 8, 9, 0, 2, 0, 0, 0, 7, 0, 8, 3, 8, 3, 6, 7, 6, 2, 7, 3,
       8, 5, 4, 8, 4, 5, 8, 1, 7, 7, 1, 1, 5, 3, 1, 7, 6, 4, 4, 7, 5, 7, 3, 0, 2, 7, 0, 0, 6, 9,
       8, 5, 5, 5, 7, 1, 3, 6, 6, 9, 5, 9, 6, 2, 2, 8, 4, 2, 9, 1, 4, 8, 1, 9, 8, 6, 0, 8, 3, 4,
       9, 3, 6, 4, 7, 5, 2, 9, 2, 7, 1, 9, 0, 7, 4, 1, 6, 8, 4, 4, 4, 3, 6, 5, 5, 1, 0, 7, 0, 4,
       3, 4, 2, 7, 1, 1, 5, 5, 9, 6, 9, 9, 5, 0, 8, 0, 9, 3, 0, 4, 2, 8, 8, 0, 1, 7, 7, 9, 0, 4,
       1, 7, 4, 4, 9, 7, 7, 9, 2
    >>

\* a >= b for two strings of digit values of the same length
DigitsAtLeast(a, b) ==
    \/ a = b
    \/ \E i \in 1..Len(a) :
          /\ a[i] > b[i]
          /\ \A j \in 1..(i - 1) : a[j] = b[j]

\* `percentage / 100.0` raises OverflowError: the integer is too large to
\* convert to float
FloatOverflows(ds) ==
    LET v == Significant(ds)
    IN  \/ Len(v) > Len(FloatLimitDigits)
        \/ /\ Len(v) = Len(FloatLimitDigits)
           /\ DigitsAtLeast(v, FloatLimitDigits)

SetMin(S) == CHOOSE x \in S : \A y \in S : x <= y

\* \s* from position i: the position after the run of whitespace
SkipSpaces(s, i) ==
    LET stops == {j \in i..Len(s) : ~IsSpace(s[j])}
    IN  IF i > Len(s) THEN i
        ELSE IF stops = {} THEN Len(s) + 1
        ELSE SetMin(stops)

\* \d* from position i: the position after the run of digits
SkipDigits(s, i) ==
    LET stops == {j \in i..Len(s) : ~IsDigit(s[j])}
    IN  IF i > Len(s) THEN i
        ELSE IF stops = {} THEN Len(s) + 1
        ELSE SetMin(stops)

NoMatch == [ok |-> FALSE, groups |-> <<<<>>, <<>>, <<>>>>, end |-> 0]

\* \|\s*(?P<current>\d+)\/(?P<total>\d+) at position i
MatchTail(s, i) ==
    LET a == SkipSpaces(s, i + 1)
        b == SkipDigits(s, a)
        c == SkipDigits(s, b + 1)
    IN  IF /\ i <= Len(s)
           /\ s[i] = Pipe
           /\ b > a
           /\ b <= Len(s)
           /\ s[b] = Slash
           /\ c > b + 1
        THEN [ok |-> TRUE,
              groups |-> <<<<>>, SubSeq(s, a, b - 1),
                           SubSeq(s, b + 1, c - 1)>>,
              end |-> c]
        ELSE NoMatch

\* .+? starting at position j: the positions where the bar may end, i.e.
\* where the rest of the pattern matches; the lazy quantifier takes the
\* first; `.` matches every character but "\n"
BarEnds(s, j) ==
    {e \in (j + 1)..Len(s) :
        /\ MatchTail(s, e).ok
        /\ \A x \in j..(e - 1) : s[x] # Newline}

\* the pattern tried at position start; ^ matches at the start of the string
MatchAt(s, start) ==
    LET a == SkipSpaces(s, start)
        b == SkipDigits(s, a)
        c == SkipSpaces(s, b + 1)
        ends == BarEnds(s, c + 1)
    IN  IF /\ start = 1
           /\ b > a
           /\ b <= Len(s)
           /\ s[b] = Percent
           /\ c <= Len(s)
           /\ s[c] = Pipe
           /\ ends # {}
        THEN LET t == MatchTail(s, SetMin(ends))
             IN  [ok |-> TRUE,
                  groups |-> <<SubSeq(s, a, b - 1), t.groups[2],
                               t.groups[3]>>,
                  end |-> t.end]
        ELSE NoMatch

\* _pattern.match(line)
match(line) == MatchAt(line, 1).ok

\* _pattern.findall(line): the groups, as strings, of the non-overlapping
\* matches, searched from left to right
RECURSIVE FindAllFrom(_, _)
FindAllFrom(s, pos) ==
    IF pos > Len(s) + 1 THEN <<>>
    ELSE LET m == MatchAt(s, pos)
         IN  IF m.ok THEN <<m.groups>> \o FindAllFrom(s, m.end)
             ELSE FindAllFrom(s, pos + 1)

findall(line) == FindAllFrom(line, 1)

\* logs.split("\n")
RECURSIVE Split(_)
Split(s) ==
    IF \A i \in 1..Len(s) : s[i] # Newline THEN <<s>>
    ELSE LET k == SetMin({i \in 1..Len(s) : s[i] = Newline})
         IN  <<SubSeq(s, 1, k - 1)>> \o Split(SubSeq(s, k + 1, Len(s)))

\* line.strip()
Strip(s) ==
    LET a == SkipSpaces(s, 1)
    IN  IF a > Len(s) THEN <<>>
        ELSE LET b == CHOOSE i \in a..Len(s) :
                          /\ ~IsSpace(s[i])
                          /\ \A x \in (i + 1)..Len(s) : IsSpace(s[x])
             IN  SubSeq(s, a, b)

NoProgress ==
    [is_none |-> TRUE, percentage |-> [num |-> 0, den |-> 100],
     current |-> 0, total |-> 0]

\* cls(percentage / 100.0, current, total)
Progress(percentage, current, total) ==
    [is_none |-> FALSE, percentage |-> [num |-> percentage, den |-> 100],
     current |-> current, total |-> total]

\* the ValueError int() raises for the digit string ds
IntValueError(ds) ==
    [type |-> "ValueError",
     msg |-> "Exceeds the limit (" \o ToString(IntMaxStrDigits)
             \o " digits) for integer string conversion: value has "
             \o ToString(Len(ds))
             \o " digits; use sys.set_int_max_str_digits() to increase the limit"]

OverflowError ==
    [type |-> "OverflowError", msg |-> "int too large to convert to float"]

\* what a call gives: the value returned, or the exception raised
Returns(value) == [value |-> value, raised |-> NoException]

Raises(exception) == [value |-> NoProgress, raised |-> exception]

\* `percentage, current, total = map(int, matches[0])` and
\* `return cls(percentage / 100.0, current, total)`
FromGroups(g) ==
    LET long == {k \in 1..3 : IntRaises(g[k])}
    IN  IF long # {} THEN Raises(IntValueError(g[SetMin(long)]))
        ELSE IF FloatOverflows(g[1]) THEN Raises(OverflowError)
        ELSE Returns(Progress(ToInt(g[1]), ToInt(g[2]), ToInt(g[3])))

\* the loop `for i in reversed(range(len(lines)))`, from line i downwards
RECURSIVE ParseFrom(_, _)
ParseFrom(lines, i) ==
    IF i = 0 THEN Returns(NoProgress)
    ELSE LET line == Strip(lines[i])
         IN  IF match(line) /\ Len(findall(line)) = 1
             THEN FromGroups(findall(line)[1])
             ELSE ParseFrom(lines, i - 1)

\* Prediction.Progress.parse
parse(text) == ParseFrom(Split(text), Len(Split(text)))

\* Prediction.progress
progress(l) ==
    IF l.is_none \/ l.items = <<>> THEN Returns(NoProgress) ELSE parse(l.items)

\* ------------------------------------------------------------------------
\* Log texts: lines written in the shape "P% |bar| C/T", and other lines
\* ------------------------------------------------------------------------
\* the digits of a natural number, written with the digits that begin at
\* the code point `zero` (48 for "0".."9")
RECURSIVE Digits(_, _)
Digits(n, zero) ==
    IF n < 10 THEN <<zero + n>>
    ELSE Digits(n \div 10, zero) \o <<zero + (n % 10)>>

\* the string s written n times
Repeat(s, n) == [i \in 1..(n * Len(s)) |-> s[((i - 1) % Len(s)) + 1]]

\* a line that begins with a progress report; `twice` tells that its tail
\* holds a second report
ProgressLine(lead, p, sep, bar, c, t, tail, twice, zero) ==
    [kind |-> "progress", lead |-> lead, p |-> p, sep |-> sep, bar |-> bar,
     c |-> c, t |-> t, tail |-> tail, twice |-> twice, zero |-> zero,
     p_times |-> 1, t_times |-> 1]

\* a line that begins with a progress report whose percentage is the
\* digits of p written p_times times, and whose total is the digits of t
\* written t_times times
LongLine(p, p_times, c, t, t_times) ==
    [kind |-> "progress", lead |-> <<>>, p |-> p, sep |-> <<>>, bar |-> <<35>>,
     c |-> c, t |-> t, tail |-> <<>>, twice |-> FALSE, zero |-> 48,
     p_times |-> p_times, t_times |-> t_times]

\* any other line
TextLine(text) ==
    [kind |-> "text", lead |-> <<>>, p |-> 0, sep |-> <<>>, bar |-> <<>>,
     c |-> 0, t |-> 0, tail |-> text, twice |-> FALSE, zero |-> 48,
     p_times |-> 1, t_times |-> 1]

\* the characters of a line
Render(d) ==
    IF d.kind = "text" THEN d.tail
    ELSE d.lead \o Repeat(Digits(d.p, d.zero), d.p_times) \o <<Percent>>
         \o d.sep \o <<Pipe>> \o d.bar \o <<Pipe>> \o d.sep
         \o Digits(d.c, d.zero) \o <<Slash>>
         \o Repeat(Digits(d.t, d.zero), d.t_times) \o d.tail

\* 35 is "#", 32 " ", 91 "[", 120 "x", 93 "]", 12 form feed, 160 no-break
\* space, 133 next line, 31 unit separator; 1632 is ARABIC-INDIC DIGIT ZERO
\* and 65296 FULLWIDTH DIGIT ZERO
LineSamples ==
    { \* "5%|#|1/20"
      ProgressLine(<<>>, 5, <<>>, <<35>>, 1, 20, <<>>, FALSE, 48),
      \* " 50% |##| 10/20 [x]"
      ProgressLine(<<32>>, 50, <<32>>, <<35, 35>>, 10, 20,
                   <<32, 91, 120, 93>>, FALSE, 48),
      \* "100%|#|#|20/20"
      ProgressLine(<<>>, 100, <<>>, <<35, Pipe, 35>>, 20, 20, <<>>, FALSE, 48),
      \* "7%|#|3/4 9%|#|5/6"
      ProgressLine(<<>>, 7, <<>>, <<35>>, 3, 4,
                   <<32>> \o Render(ProgressLine(<<>>, 9, <<>>, <<35>>, 5, 6,
                                                  <<>>, FALSE, 48)),
                   TRUE, 48),
      \* form feed, 25 in Arabic-Indic digits, "%", no-break space, "|#|",
      \* no-break space, 2 "/" 8 in Arabic-Indic digits, unit separator
      ProgressLine(<<12>>, 25, <<160>>, <<35>>, 2, 8, <<31>>, FALSE, 1632),
      \* 30 "%|#|" 6 "/" 12 in fullwidth digits
      ProgressLine(<<>>, 30, <<>>, <<35>>, 6, 12, <<>>, FALSE, 65296),
      \* "121212%|#|1/77"
      LongLine(12, 3, 1, 7, 2),
      \* "9" 310 times, "%|#|1/2"
      LongLine(9, 310, 1, 2, 1),
      \* "5%|#|1/", "9" 4301 times
      LongLine(5, 1, 1, 9, IntMaxStrDigits + 1),
      \* "8" 4302 times, "%|#|1/", "9" 4301 times
      LongLine(8, IntMaxStrDigits + 2, 1, 9, IntMaxStrDigits + 1),
      \* ""
      TextLine(<<>>),
      \* next line, form feed: a line of whitespace only
      TextLine(<<133, 12>>),
      \* "x5%|#|1/2"
      TextLine(<<120, 53, Percent, Pipe, 35, Pipe, 49, Slash, 50>>),
      \* "50%||1/2"
      TextLine(<<53, 48, Percent, Pipe, Pipe, 49, Slash, 50>>),
      \* "5%|#|1/"
      TextLine(<<53, Percent, Pipe, 35, Pipe, 49, Slash>>) }

\* the lines joined by "\n"
RECURSIVE Join(_)
Join(ls) ==
    IF ls = <<>> THEN <<>>
    ELSE IF Len(ls) = 1 THEN Render(ls[1])
    ELSE Render(ls[1]) \o <<Newline>> \o Join(Tail(ls))

MaxLines == 3

LogSamples == UNION {[1..n -> LineSamples] : n \in 0..MaxLines}

\* ------------------------------------------------------------------------
\* Specification of Prediction.progress
\* ------------------------------------------------------------------------
ParseQuiet ==
    /\ logs = NoneOutput
    /\ log_lines = <<>>
    /\ parsed = NoProgress
    /\ parse_raised = NoException
    /\ parse_pc = "ready"

InitLogs ==
    /\ log_lines \in LogSamples
    /\ \/ logs = ListOutput(Join(log_lines))
       \/ log_lines = <<>> /\ logs = NoneOutput
    /\ parsed = NoProgress
    /\ parse_raised = NoException
    /\ parse_pc = "ready"

progress_get ==
    /\ parse_pc = "ready"
    /\ parsed' = progress(logs).value
    /\ parse_raised' = progress(logs).raised
    /\ parse_pc' = "done"
    /\ UNCHANGED <<logs, log_lines>>
    /\ UNCHANGED <<predVars, nsVars>>

\* ------------------------------------------------------------------------
\* Namespaces: Models and Predictions
\* ------------------------------------------------------------------------
MaxRequests == 2

Ellipsis == "Ellipsis"

CursorStrings == {"", "/v1/models?cursor=c1",
                  "https://api.replicate.com/v1/predictions?cursor=c2"}

ValueError == [type |-> "ValueError", msg |-> "cursor cannot be None"]

\* the response of the transport does not make the object the method builds
ResponseError == [type |-> "ValidationError", msg |-> None]

\* what `self._client._request(...)` and the construction of the result
\* from `resp.json()` give: a result, or an exception that leaves the call
RequestOutcomes == {NoException, RequestError, ResponseError}

EmptyBody == <<>>

NoCall ==
    [ns |-> "None", op |-> "None", cursor |-> None, key |-> None, args |-> <<>>]

NoNsRequest == [method |-> "None", target |-> "", body |-> EmptyBody]

BaseEndpoint(ns) == IF ns = "models" THEN "/v1/models" ELSE "/v1/predictions"

\* variant: the cursor is ignored
ListTargetBase(ns, cursor) == BaseEndpoint(ns)

\* `base if cursor is ... else cursor`
ListTarget(ns, cursor) == IF cursor = Ellipsis THEN BaseEndpoint(ns) ELSE cursor

\* Models.list and Predictions.list
List(ns, cursor) ==
    /\ ns_requests < MaxRequests
    /\ ns_call' = [ns |-> ns, op |-> "list", cursor |-> cursor, key |-> None,
                   args |-> <<>>]
    /\ ns_before' = ns_requests
    /\ IF cursor = None
       THEN /\ ns_raised' = ValueError
            /\ ns_request' = NoNsRequest
            /\ UNCHANGED ns_requests
       ELSE /\ ns_request' = [method |-> "GET",
                              target |-> ListTarget(ns, cursor),
                              body |-> EmptyBody]
            /\ ns_requests' = ns_requests + 1
            /\ ns_raised' \in RequestOutcomes
    /\ UNCHANGED model_obj
    /\ UNCHANGED <<predVars, parseVars>>

Predictions_list == \E cursor \in {None, Ellipsis} \cup CursorStrings :
                        List("predictions", cursor)

Models_list == \E cursor \in {None, Ellipsis} \cup CursorStrings :
                   List("models", cursor)

\* a request without a body, for the object named `key`
Fetch(ns, op, key, method, target) ==
    /\ ns_requests < MaxRequests
    /\ ns_call' = [ns |-> ns, op |-> op, cursor |-> None, key |-> key,
                   args |-> <<>>]
    /\ ns_before' = ns_requests
    /\ ns_request' = [method |-> method, target |-> target, body |-> EmptyBody]
    /\ ns_requests' = ns_requests + 1
    /\ ns_raised' \in RequestOutcomes

\* Predictions.get
Predictions_get ==
    \E id \in Ids :
        /\ Fetch("predictions", "get", id, GetRequest(id).method,
                 GetRequest(id).target)
        /\ UNCHANGED model_obj
        /\ UNCHANGED <<predVars, parseVars>>

\* Predictions.cancel
Predictions_cancel ==
    \E id \in Ids :
        /\ Fetch("predictions", "cancel", id, CancelRequest(id).method,
                 CancelRequest(id).target)
        /\ UNCHANGED model_obj
        /\ UNCHANGED <<predVars, parseVars>>

Owners == {"acme"}
ModelNames == {"m", "n"}

\* the records of models the server may answer with
ModelRecords ==
    [owner : Owners, name : ModelNames, description : {None, "text"}]

\* f"/v1/models/{key}"
ModelTarget(key) == "/v1/models/" \o key

\* Models.get
Models_get ==
    \E owner \in Owners, name \in ModelNames :
        /\ Fetch("models", "get", owner \o "/" \o name, "GET",
                 ModelTarget(owner \o "/" \o name))
        /\ UNCHANGED model_obj
        /\ UNCHANGED <<predVars, parseVars>>

\* Model.reload: Models.get(f"{self.owner}/{self.name}"), then every field
\* is overwritten with the record received; when Models.get raises, the
\* exception leaves reload and the object keeps its fields
Model_reload ==
    \E received \in ModelRecords :
        /\ Fetch("models", "reload", model_obj.owner \o "/" \o model_obj.name,
                 "GET",
                 ModelTarget(model_obj.owner \o "/" \o model_obj.name))
        /\ model_obj' = IF ns_raised' = NoException THEN received
                        ELSE model_obj
        /\ UNCHANGED <<predVars, parseVars>>

\* a dict, and the keyword arguments of a call, are sequences of
\* <<key, value>> pairs in insertion order
Keys(d) == {d[i][1] : i \in 1..Len(d)}

\* d[key]
Get(d, key) == d[CHOOSE i \in 1..Len(d) : d[i][1] = key][2]

\* d[key] = value
Set(d, key, value) ==
    IF key \in Keys(d)
    THEN [i \in 1..Len(d) |-> IF d[i][1] = key THEN <<key, value>> ELSE d[i]]
    ELSE Append(d, <<key, value>>)

\* the keys of the dict literal the body starts as
RequiredKeys(ns) ==
    IF ns = "models" THEN <<"owner", "name", "visibility", "hardware">>
    ELSE <<"version", "input">>

\* the optional arguments, in the order the code looks at them
OptionalKeys(ns) ==
    IF ns = "models"
    THEN <<"description", "github_url", "paper_url", "license_url",
           "cover_image_url">>
    ELSE <<"webhook", "webhook_completed", "webhook_events_filter", "stream">>

\* variant: the key is set even when the argument is None
SetAlways(body, key, value) == Set(body, key, value)

\* `if value is not None: body[key] = value`
SetIfGiven(body, key, value) ==
    IF value # None THEN Set(body, key, value) ELSE body

RECURSIVE SetOptional(_, _, _)
SetOptional(body, keys, args) ==
    IF keys = <<>> THEN body
    ELSE SetOptional(SetIfGiven(body, Head(keys), Get(args, Head(keys))),
                     Tail(keys), args)

\* Version objects, each with its id
VersionObjects == << <<"Version(id=v2)", "v2">> >>

\* `version if isinstance(version, str) else version.id`
VersionId(version) ==
    IF version \in Keys(VersionObjects) THEN Get(VersionObjects, version)
    ELSE version

\* inputs that hold a file, each with what the encoder sends in its place
FileInputs == << <<"{image: File(f)}", "{image: data:f}">> >>

\* the encoder, or the upload of a file it finds, fails
EncodeError == [type |-> "EncodeError", msg |-> None]

\* what encode_json gives for the input: a value, and for an input that
\* holds a file also an exception
EncodeOutcomes(ns, args) ==
    IF ns = "predictions" /\ Get(args, "input") \in Keys(FileInputs)
    THEN {NoException, EncodeError}
    ELSE {NoException}

\* encode_json(input, upload_file=upload_file): a file in the input is
\* replaced by a reference to the uploaded file
encode_json(input) ==
    IF input \in Keys(FileInputs) THEN Get(FileInputs, input) ELSE input

\* the value the dict literal gives a required key
RequiredValue(ns, key, args) ==
    IF ns = "predictions" /\ key = "version" THEN VersionId(Get(args, key))
    ELSE IF ns = "predictions" /\ key = "input"
    THEN encode_json(Get(args, key))
    ELSE Get(args, key)

\* the body of the POST request
CreateBody(ns, args) ==
    SetOptional([i \in 1..Len(RequiredKeys(ns)) |->
                    <<RequiredKeys(ns)[i],
                      RequiredValue(ns, RequiredKeys(ns)[i], args)>>],
                OptionalKeys(ns), args)

\* Models.create and Predictions.create: the body is built, which raises
\* when the encoder does, and then handed to the transport in one POST
Create(ns, args) ==
    /\ ns_requests < MaxRequests
    /\ ns_call' = [ns |-> ns, op |-> "create", cursor |-> None, key |-> None,
                   args |-> args]
    /\ ns_before' = ns_requests
    /\ \E encoded \in EncodeOutcomes(ns, args) :
          IF encoded # NoException
          THEN /\ ns_raised' = encoded
               /\ ns_request' = NoNsRequest
               /\ UNCHANGED ns_requests
          ELSE /\ ns_request' = [method |-> "POST",
                                 target |-> BaseEndpoint(ns),
                                 body |-> CreateBody(ns, args)]
               /\ ns_requests' = ns_requests + 1
               /\ ns_raised' \in RequestOutcomes
    /\ UNCHANGED model_obj
    /\ UNCHANGED <<predVars, parseVars>>

Predictions_create ==
    \E version \in {"v1", "Version(id=v2)"},
       input \in {"{}", "{image: File(f)}"},
       webhook \in {None, "https://hook"},
       webhook_completed \in {None, "https://done"},
       webhook_events_filter \in {None, "[]", "[completed]"},
       stream \in {None, "True", "False"} :
        Create("predictions",
               << <<"version", version>>, <<"input", input>>,
                  <<"webhook", webhook>>,
                  <<"webhook_completed", webhook_completed>>,
                  <<"webhook_events_filter", webhook_events_filter>>,
                  <<"stream", stream>> >>)

Models_create ==
    \E description \in {None, "", "text"},
       github_url \in {None, "https://github"},
       paper_url \in {None, "https://paper"},
       license_url \in {None, "https://license"},
       cover_image_url \in {None, "https://cover"} :
        Create("models",
               << <<"owner", "acme">>, <<"name", "m">>,
                  <<"visibility", "private">>, <<"hardware", "cpu">>,
                  <<"description", description>>,
                  <<"github_url", github_url>>, <<"paper_url", paper_url>>,
                  <<"license_url", license_url>>,
                  <<"cover_image_url", cover_image_url>> >>)

\* no call on a namespace yet
NsCalls ==
    /\ ns_call = NoCall
    /\ ns_request = NoNsRequest
    /\ ns_requests = 0
    /\ ns_before = 0
    /\ ns_raised = NoException

NsQuiet ==
    /\ model_obj = [owner |-> "acme", name |-> "m", description |-> None]
    /\ NsCalls

\* a Model object built from a record of the server
InitModel == model_obj \in ModelRecords

\* ------------------------------------------------------------------------
\* Specifications
\* ------------------------------------------------------------------------
\* the Prediction object, its caller and the remote service
Init == InitPred /\ ParseQuiet /\ NsQuiet

Next ==
    \/ ServerStart
    \/ ServerAppend
    \/ ServerFinish
    \/ reload
    \/ reload_fails
    \/ wait_call
    \/ wait_check
    \/ wait_sleep
    \/ wait_reload
    \/ wait_reload_fails
    \/ cancel
    \/ cancel_fails
    \/ call_return
    \/ \E g \in Gens : iter_call(g)
    \/ \E g \in Gens : iter_next(g)
    \/ \E g \in Gens : iter_loop(g)
    \/ \E g \in Gens : iter_yield(g)
    \/ \E g \in Gens : iter_sleep(g)
    \/ \E g \in Gens : iter_reload(g)
    \/ \E g \in Gens : iter_reload_fails(g)
    \/ \E g \in Gens : iter_tail(g)

Spec == Init /\ [][Next]_vars

\* the same, with the caller's loop running on and the remote prediction
\* reaching a terminal status
FairSpec ==
    /\ Spec
    /\ WF_vars(wait_check)
    /\ WF_vars(wait_sleep)
    /\ WF_vars(wait_reload)
    /\ WF_vars(ServerFinish)

\* Prediction.progress on a log text
InitParse == InitPred /\ InitLogs /\ NsQuiet

NextParse == progress_get

SpecParse == InitParse /\ [][NextParse]_vars

\* calls on the namespaces
InitNs == InitPred /\ ParseQuiet /\ InitModel /\ NsCalls

NextNs ==
    \/ Predictions_list
    \/ Models_list
    \/ Predictions_get
    \/ Predictions_cancel
    \/ Models_get
    \/ Model_reload
    \/ Predictions_create
    \/ Models_create

SpecNs == InitNs /\ [][NextNs]_vars

\* ------------------------------------------------------------------------
\* Properties
\* ------------------------------------------------------------------------
InWait == pc \in {"wait_check", "wait_sleep", "wait_reload"}

\* C1: when a generator ends without raising on a prediction that
\* succeeded, the elements it yielded are the server's output list, whatever
\* snapshot the object held when the iteration began.
C1_YieldsWholeOutput ==
    \A g \in Gens :
        (/\ gen_pc[g] = "iter_end"
         /\ gen_raised[g] = NoException
         /\ self.status = "succeeded")
            => yielded[g] = OrEmpty(srv.output)

\* C2: when a generator raises ModelError, the error carries the server's
\* message and every element of the output observed with the failure has
\* been yielded (stated for an iteration that began with no output held).
C2_FailureAfterOutput ==
    \A g \in Gens :
        (/\ gen_pc[g] = "iter_end"
         /\ gen_raised[g].type = "ModelError"
         /\ start_output[g] = <<>>)
            => /\ gen_raised[g].msg = srv.error
               /\ yielded[g] = OrEmpty(self.output)

\* C3: wait() reloads zero times when the status held at the call is
\* terminal and at least once when it is not, sleeps exactly once before
\* each reload, and neither sleeps nor reloads once a terminal status has
\* been observed.
C3_WaitReloads ==
    /\ (InWait \/ pc = "wait_done") =>
          /\ start_status \in Terminal => reloads = 0
          /\ (pc = "wait_done" /\ start_status \notin Terminal) => reloads >= 1
          /\ sleeps = (IF pc = "wait_reload" THEN reloads + 1 ELSE reloads)
    /\ pc \in {"wait_sleep", "wait_reload"} => self.status \notin Terminal

C3_Witness ==
    /\ pc = "wait_done"
    /\ raised = NoException
    /\ start_status \notin Terminal
    /\ reloads = 2
    /\ sleeps = 2

\* C4: with every fetch answered and the remote prediction reaching a
\* terminal status, a running wait() returns; when it returns normally the
\* status held is terminal and is the status of the last record fetched,
\* and wait() raises no ModelError, not even for the status failed.
C4_WaitReturns ==
    /\ InWait ~> (pc = "wait_done")
    /\ [](pc = "wait_done" =>
            /\ raised.type # "ModelError"
            /\ raised = NoException =>
                  /\ self.status \in Terminal
                  /\ self.status = last_fetched.status
                  /\ self.status = srv.status)

C4_Witness ==
    /\ pc = "wait_done"
    /\ raised = NoException
    /\ reloads >= 1
    /\ self.status = "failed"

\* C5: the elements a generator has yielded so far are elements of the
\* server's output list at strictly increasing positions: none twice, none
\* out of order, whatever the caller does between two yields.
C5_OrderedNoDuplicates ==
    \A g \in Gens :
        /\ Len(yielded_pos[g]) = Len(yielded[g])
        /\ \A i \in 1..Len(yielded[g]) :
              /\ yielded_pos[g][i] \in 1..Len(srv.output.items)
              /\ yielded[g][i] = srv.output.items[yielded_pos[g][i]]
              /\ i > 1 => yielded_pos[g][i - 1] < yielded_pos[g][i]

C5_Witness ==
    \E g \in Gens :
        /\ gen_pc[g] = "iter_end"
        /\ gen_raised[g] = NoException
        /\ start_output[g] = <<>>
        /\ Len(yielded[g]) = MaxOut
        /\ yielded[g][1] # yielded[g][2]

\* C9: every cancel() call hands exactly one cancel request for the
\* prediction's id to the transport, whatever status is held, and when the
\* server answers, the object is left equal to the record it returned.
C9_CancelForwarded ==
    pc = "cancel_done" =>
        /\ cancel_requests = 1
        /\ last_request = CancelRequest(self.id)
        /\ raised = NoException =>
              /\ self = last_fetched
              /\ self = Record(self.id, srv)

C9_Witness ==
    /\ pc = "cancel_done"
    /\ raised = NoException
    /\ start_status = "succeeded"
    /\ self.status = "succeeded"
    /\ \E g \in Gens : gen_pc[g] = "at_yield"

SetMax(S) == CHOOSE x \in S : \A y \in S : y <= x

\* the number written by the digits of n, times times
RECURSIVE Written(_, _)
Written(n, times) ==
    IF times = 1 THEN n
    ELSE Written(n, times - 1) * (10 ^ Len(Digits(n, 48))) + n

\* what the log was written to report: the report of the last line of
\* `ls` that satisfies `counts`
LastReport(ls, counts(_)) ==
    LET idx == {i \in 1..Len(ls) : counts(ls[i])}
    IN  IF idx = {} THEN NoProgress
        ELSE LET d == ls[SetMax(idx)]
             IN  Progress(Written(d.p, d.p_times), d.c,
                          Written(d.t, d.t_times))

IsReport(d) == d.kind = "progress"

IsSingleReport(d) == d.kind = "progress" /\ ~d.twice

\* a line whose report holds a number of more than 4300 digits, which
\* int() does not take, or a percentage of more digits than the largest
\* float
Oversized(d) ==
    /\ d.kind = "progress"
    /\ \/ d.p_times * Len(Digits(d.p, 48)) > Len(FloatLimitDigits)
       \/ d.t_times * Len(Digits(d.t, 48)) > IntMaxStrDigits

\* C6: Prediction.progress returns (P/100, C, T) of the last line of the
\* log that begins with a report "P% |bar| C/T", whatever other lines
\* precede or follow it, and None when the log has no such line; it never
\* raises.
C6_LastReportWins ==
    parse_pc = "done" =>
        /\ parse_raised = NoException
        /\ parsed = LastReport(log_lines, IsReport)

\* C7: a line holding two reports is skipped: the values returned are those
\* of the last line holding exactly one report, None when there is none
\* (stated for the logs whose numbers int() and float take).
C7_AmbiguousLineSkipped ==
    (parse_pc = "done" /\ \A i \in 1..Len(log_lines) : ~Oversized(log_lines[i]))
        => /\ parse_raised = NoException
           /\ parsed = LastReport(log_lines, IsSingleReport)

\* C8: list(cursor=None) raises ValueError and sends nothing; with the
\* default cursor it sends one GET to the base endpoint of the namespace;
\* with a cursor string it sends one GET to exactly that string. Whether
\* the transport answers or raises, a call with another cursor than None
\* sends its one request and does not raise the caller-misuse error.
C8_ListRequests ==
    ns_call.op = "list" =>
        IF ns_call.cursor = None
        THEN /\ ns_raised = ValueError
             /\ ns_requests = ns_before
             /\ ns_request = NoNsRequest
        ELSE /\ ns_raised \in RequestOutcomes
             /\ ns_requests = ns_before + 1
             /\ ns_request.method = "GET"
             /\ ns_request.body = EmptyBody
             /\ ns_request.target =
                   (IF ns_call.cursor # Ellipsis THEN ns_call.cursor
                    ELSE IF ns_call.ns = "models" THEN "/v1/models"
                    ELSE "/v1/predictions")

C8_Witness ==
    /\ ns_call.op = "list"
    /\ ns_call.ns = "predictions"
    /\ ns_call.cursor = "/v1/models?cursor=c1"
    /\ ns_raised = NoException
    /\ ns_requests = 2
    /\ ns_before = 1
    /\ ns_request.target = "/v1/models?cursor=c1"

Range(seq) == {seq[i] : i \in 1..Len(seq)}

\* C10: create() sends one POST unless the encoding of the input raises,
\* and then it sends nothing; the body it sends holds the required keys
\* and exactly the optional keys whose argument is not None, each with the
\* argument's value; no key is sent with the value None. This holds
\* whether the transport answers the POST or raises.
C10_CreateBody ==
    ns_call.op = "create" =>
        IF ns_raised = EncodeError
        THEN /\ ns_requests = ns_before
             /\ ns_request = NoNsRequest
        ELSE /\ ns_raised \in RequestOutcomes
             /\ ns_requests = ns_before + 1
             /\ ns_request.method = "POST"
             /\ Keys(ns_request.body) =
                   Range(RequiredKeys(ns_call.ns)) \cup
                   {k \in Range(OptionalKeys(ns_call.ns)) :
                       Get(ns_call.args, k) # None}
             /\ Cardinality(Keys(ns_request.body)) = Len(ns_request.body)
             /\ \A i \in 1..Len(ns_request.body) :
                   /\ ns_request.body[i][2] # None
                   /\ ns_request.body[i][1] \notin {"version", "input"} =>
                         ns_request.body[i][2] =
                             Get(ns_call.args, ns_request.body[i][1])

C10_Witness ==
    /\ ns_call.op = "create"
    /\ ns_call.ns = "predictions"
    /\ ns_raised = NoException
    /\ Get(ns_call.args, "version") = "Version(id=v2)"
    /\ Get(ns_request.body, "version") = "v2"
    /\ Get(ns_call.args, "stream") = "False"
    /\ Get(ns_call.args, "webhook") = None
    /\ Keys(ns_request.body) = {"version", "input", "stream"}
====
